---- MODULE Spec2Model ----
(***************************************************************************)
(* A model of the AWS cloud-provider slice of karpenter:                   *)
(*   - AutoScalingGroup.Reconcile  (pkg/cloudprovider/nodegroup/aws)       *)
(*   - Factory / NewFactory / CapacityFor  (the AWS provider factory)      *)
(* Pointers to int32 are sequences: <<>> is nil, <<n>> points to n.        *)
(* Go errors are chains of frames: <<>> is nil, Wrapf puts a frame in      *)
(* front of the chain of its cause.                                        *)
(***************************************************************************)
EXTENDS Integers, Sequences, FiniteSets, TLC

\* ------------------------------------------------------------------ bounds
\* Largest instance count / replica count the model explores.
MaxReplicas == 2

\* Largest number of CapacityFor calls the model explores.
MaxHandles == 4

\* The last minute the model explores.
MaxTime == 11

\* Largest number of options NewEnvironment is given.
MaxOptions == 2

\* ------------------------------------------------------ program constants
\* backOffOpts of Environment.Start: Duration and Cap in microseconds,
\* Factor 1.5 as a fraction, Steps.
BackoffDuration == 10000

BackoffFactorNum == 3

BackoffFactorDen == 2

BackoffSteps == 10

BackoffCap == 1000000

\* CacheTTL and CacheCleanupInterval, in minutes.
CacheTTL == 5

CacheCleanupInterval == 10

\* ------------------------------------------------------------ Go helpers
Nil == <<>>

\* ptr.Int32(n), aws.Int64(n): a pointer to a fresh copy of n.
Ptr(n) == <<n>>

Deref(p) == p[1]

\* The nil error.
NoError == <<>>

\* An error returned by the AWS API, with its error code.
APIError(code) == <<[text |-> code, arg |-> ""]>>

\* The error codes the fake AWS API may answer with.
APIErrorCodes == {"AccessDenied", "Throttling"}

\* errors.Wrapf(err, format, arg): nil stays nil, otherwise a new frame
\* holding the formatted message is put in front of the cause.
Wrapf(err, text, arg) ==
    IF err = NoError THEN NoError
    ELSE <<[text |-> text, arg |-> arg]>> \o err

\* ---------------------------------------------------------------- state
VARIABLES
    spec,       \* spec[g]   = asg.Spec   : [ID, Replicas]
    status,     \* status[g] = asg.Status : [Replicas]
    pc,         \* position of the Reconcile call on node group object g
    out,        \* the (output, err) pair DescribeAutoScalingGroups returned
    ret,        \* the error Reconcile returned
    cloud,      \* the auto scaling groups held by AWS, by name
    calls,      \* calls[g]: the API calls the current Reconcile call issued on asg.Client
    preStatus,  \* status[g] when the current Reconcile call was entered
    fpc,        \* position of the NewFactory call
    sess,       \* the *session.Session NewFactory builds
    heap,       \* the objects allocated by NewFactory and CapacityFor, by address
    factory,    \* the address of the *Factory NewFactory returned, or 0
    handles,    \* the CapacityFor calls made: argument and returned address
    netCalls,   \* the number of network calls issued by the factory code
    lookup,     \* the (region, err) pair the instance metadata server answered
    now,        \* the time, in minutes, since the caches were created
    stored,     \* the latest Set of each cache and key: value and expiry time
    got,        \* the Get call that returned last and is not yet consumed
    options,    \* e.options: the options NewEnvironment was given
    epc,        \* position of the Environment.Start call
    eret,       \* the error Environment.Start returned
    spc,        \* position of the Environment.Stop call
    mgr,        \* the state of e.Manager and of the goroutine that starts it
    backoff,    \* backOffOpts inside wait.ExponentialBackoff: Duration and Steps
    cancelled,  \* e.ctx is cancelled
    cleanup,    \* the counter of the e.cleanup wait group
    elog        \* what the environment has done so far, in order

ngvars == <<spec, status, pc, out, ret, cloud, calls, preStatus>>

fvars == <<fpc, sess, heap, factory, handles, netCalls>>

cvars == <<now, stored, got>>

evars == <<options, epc, eret, spc, mgr, backoff, cancelled, cleanup, elog>>

vars == <<ngvars, fvars, lookup, cvars, evars>>

\* The node group objects reconciled, named by the ID they were created with.
Managed == {"asg-a"}

Replicas == 0..MaxReplicas

NoOutput == [err |-> NoError, groups |-> <<>>]

\* An auto scaling group that AWS does not have.
Absent == [exists |-> FALSE, instances |-> 0, desired |-> 0]

\* ----------------------------------------------------------- fake AWS API
\* What DescribeAutoScalingGroups may answer for one name with MaxRecords 1:
\* an API error, or the groups of that name (none when AWS has no such
\* group), each with the number of its Instances.
DescribeAnswers(name) ==
    {[err |-> APIError(c), groups |-> <<>>] : c \in APIErrorCodes}
    \cup {[err |-> NoError,
           groups |-> IF cloud[name].exists
                      THEN <<[instances |-> cloud[name].instances]>>
                      ELSE <<>>]}

\* What UpdateAutoScalingGroup may answer: an API error, or success.
\* AWS answers a name it does not have with an error.
UpdateAnswers(name) ==
    {APIError(c) : c \in APIErrorCodes}
    \cup (IF cloud[name].exists THEN {NoError} ELSE {})

DescribeCall(name, answer) ==
    [op |-> "DescribeAutoScalingGroups", name |-> name, capacity |-> Nil,
     err |-> answer.err, groups |-> answer.groups]

UpdateCall(name, capacity, err) ==
    [op |-> "UpdateAutoScalingGroup", name |-> name, capacity |-> capacity,
     err |-> err, groups |-> <<>>]

\* ------------------------------------------------------------- Reconcile
\* A variant that keeps the describe output in one place shared by all
\* node group objects.
DescribeAutoScalingGroupsShared(g) ==
    /\ pc[g] = "idle"
    /\ \A h \in DOMAIN pc : pc[h] # "panicked"
    /\ \E answer \in DescribeAnswers(spec[g].ID) :
          /\ out' = [h \in DOMAIN out |-> answer]
          /\ calls' = [calls EXCEPT ![g] = <<DescribeCall(spec[g].ID, answer)>>]
    /\ preStatus' = [preStatus EXCEPT ![g] = status[g].Replicas]
    /\ pc' = [pc EXCEPT ![g] = "described"]
    /\ UNCHANGED <<spec, status, ret, cloud, fvars, lookup, cvars, evars>>

\* Reconcile is entered and asg.Client.DescribeAutoScalingGroups is called
\* for asg.Spec.ID; the call returns.
DescribeAutoScalingGroups(g) ==
    /\ pc[g] = "idle"
    /\ \A h \in DOMAIN pc : pc[h] # "panicked"
    /\ \E answer \in DescribeAnswers(spec[g].ID) :
          /\ out' = [out EXCEPT ![g] = answer]
          /\ calls' = [calls EXCEPT ![g] = <<DescribeCall(spec[g].ID, answer)>>]
    /\ preStatus' = [preStatus EXCEPT ![g] = status[g].Replicas]
    /\ pc' = [pc EXCEPT ![g] = "described"]
    /\ UNCHANGED <<spec, status, ret, cloud, fvars, lookup, cvars, evars>>

\* A variant that returns on a nil Spec.Replicas before the status write.
ReconcileCompareNilFirst(g) ==
    /\ pc[g] = "described"
    /\ \A h \in DOMAIN pc : pc[h] # "panicked"
    /\ IF out[g].err # NoError
       THEN /\ ret' = [ret EXCEPT ![g] =
                         Wrapf(out[g].err,
                               "unable to get instance count from auto scaling group",
                               spec[g].ID)]
            /\ pc' = [pc EXCEPT ![g] = "done"]
            /\ UNCHANGED status
       ELSE IF Len(out[g].groups) = 0
       THEN /\ pc' = [pc EXCEPT ![g] = "panicked"]
            /\ UNCHANGED <<status, ret>>
       ELSE IF spec[g].Replicas = Nil
       THEN /\ ret' = [ret EXCEPT ![g] = NoError]
            /\ pc' = [pc EXCEPT ![g] = "done"]
            /\ UNCHANGED status
       ELSE /\ status' = [status EXCEPT ![g].Replicas = Ptr(out[g].groups[1].instances)]
            /\ IF Deref(status'[g].Replicas) = Deref(spec[g].Replicas)
               THEN /\ ret' = [ret EXCEPT ![g] = NoError]
                    /\ pc' = [pc EXCEPT ![g] = "done"]
               ELSE /\ pc' = [pc EXCEPT ![g] = "updating"]
                    /\ UNCHANGED ret
    /\ UNCHANGED <<spec, out, cloud, calls, preStatus, fvars, lookup, cvars, evars>>

\* A variant that updates whenever Spec.Replicas is set, equal or not.
ReconcileCompareNoEqualCheck(g) ==
    /\ pc[g] = "described"
    /\ \A h \in DOMAIN pc : pc[h] # "panicked"
    /\ IF out[g].err # NoError
       THEN /\ ret' = [ret EXCEPT ![g] =
                         Wrapf(out[g].err,
                               "unable to get instance count from auto scaling group",
                               spec[g].ID)]
            /\ pc' = [pc EXCEPT ![g] = "done"]
            /\ UNCHANGED status
       ELSE IF Len(out[g].groups) = 0
       THEN /\ pc' = [pc EXCEPT ![g] = "panicked"]
            /\ UNCHANGED <<status, ret>>
       ELSE /\ status' = [status EXCEPT ![g].Replicas = Ptr(out[g].groups[1].instances)]
            /\ IF spec[g].Replicas = Nil
               THEN /\ ret' = [ret EXCEPT ![g] = NoError]
                    /\ pc' = [pc EXCEPT ![g] = "done"]
               ELSE /\ pc' = [pc EXCEPT ![g] = "updating"]
                    /\ UNCHANGED ret
    /\ UNCHANGED <<spec, out, cloud, calls, preStatus, fvars, lookup, cvars, evars>>

\* A variant that reports a failed describe as a group of zero instances.
ReconcileCompareZeroOnError(g) ==
    /\ pc[g] = "described"
    /\ \A h \in DOMAIN pc : pc[h] # "panicked"
    /\ IF out[g].err # NoError
       THEN /\ ret' = [ret EXCEPT ![g] =
                         Wrapf(out[g].err,
                               "unable to get instance count from auto scaling group",
                               spec[g].ID)]
            /\ pc' = [pc EXCEPT ![g] = "done"]
            /\ status' = [status EXCEPT ![g].Replicas = Ptr(0)]
       ELSE IF Len(out[g].groups) = 0
       THEN /\ pc' = [pc EXCEPT ![g] = "panicked"]
            /\ UNCHANGED <<status, ret>>
       ELSE /\ status' = [status EXCEPT ![g].Replicas = Ptr(out[g].groups[1].instances)]
            /\ IF \/ spec[g].Replicas = Nil
                  \/ Deref(status'[g].Replicas) = Deref(spec[g].Replicas)
               THEN /\ ret' = [ret EXCEPT ![g] = NoError]
                    /\ pc' = [pc EXCEPT ![g] = "done"]
               ELSE /\ pc' = [pc EXCEPT ![g] = "updating"]
                    /\ UNCHANGED ret
    /\ UNCHANGED <<spec, out, cloud, calls, preStatus, fvars, lookup, cvars, evars>>

\* A variant that compares Spec.Replicas with the status the previous
\* Reconcile call left, and writes the new status afterwards.
ReconcileCompareStale(g) ==
    /\ pc[g] = "described"
    /\ \A h \in DOMAIN pc : pc[h] # "panicked"
    /\ IF out[g].err # NoError
       THEN /\ ret' = [ret EXCEPT ![g] =
                         Wrapf(out[g].err,
                               "unable to get instance count from auto scaling group",
                               spec[g].ID)]
            /\ pc' = [pc EXCEPT ![g] = "done"]
            /\ UNCHANGED status
       ELSE IF Len(out[g].groups) = 0
       THEN /\ pc' = [pc EXCEPT ![g] = "panicked"]
            /\ UNCHANGED <<status, ret>>
       ELSE /\ status' = [status EXCEPT ![g].Replicas = Ptr(out[g].groups[1].instances)]
            /\ IF \/ spec[g].Replicas = Nil
                  \/ /\ status[g].Replicas # Nil
                     /\ Deref(status[g].Replicas) = Deref(spec[g].Replicas)
               THEN /\ ret' = [ret EXCEPT ![g] = NoError]
                    /\ pc' = [pc EXCEPT ![g] = "done"]
               ELSE /\ pc' = [pc EXCEPT ![g] = "updating"]
                    /\ UNCHANGED ret
    /\ UNCHANGED <<spec, out, cloud, calls, preStatus, fvars, lookup, cvars, evars>>

\* A variant that fills a nil Spec.Replicas with the observed count.
ReconcileCompareDefaultsSpec(g) ==
    /\ pc[g] = "described"
    /\ \A h \in DOMAIN pc : pc[h] # "panicked"
    /\ IF out[g].err # NoError
       THEN /\ ret' = [ret EXCEPT ![g] =
                         Wrapf(out[g].err,
                               "unable to get instance count from auto scaling group",
                               spec[g].ID)]
            /\ pc' = [pc EXCEPT ![g] = "done"]
            /\ UNCHANGED <<status, spec>>
       ELSE IF Len(out[g].groups) = 0
       THEN /\ pc' = [pc EXCEPT ![g] = "panicked"]
            /\ UNCHANGED <<status, ret, spec>>
       ELSE /\ status' = [status EXCEPT ![g].Replicas = Ptr(out[g].groups[1].instances)]
            /\ spec' = IF spec[g].Replicas = Nil
                       THEN [spec EXCEPT ![g].Replicas = status'[g].Replicas]
                       ELSE spec
            /\ IF Deref(status'[g].Replicas) = Deref(spec'[g].Replicas)
               THEN /\ ret' = [ret EXCEPT ![g] = NoError]
                    /\ pc' = [pc EXCEPT ![g] = "done"]
               ELSE /\ pc' = [pc EXCEPT ![g] = "updating"]
                    /\ UNCHANGED ret
    /\ UNCHANGED <<out, cloud, calls, preStatus, fvars, lookup, cvars, evars>>

\* The error check, the status write and the comparison that follow the
\* describe call.
ReconcileCompare(g) ==
    /\ pc[g] = "described"
    /\ \A h \in DOMAIN pc : pc[h] # "panicked"
    /\ IF out[g].err # NoError
       THEN /\ ret' = [ret EXCEPT ![g] =
                         Wrapf(out[g].err,
                               "unable to get instance count from auto scaling group",
                               spec[g].ID)]
            /\ pc' = [pc EXCEPT ![g] = "done"]
            /\ UNCHANGED status
       ELSE IF Len(out[g].groups) = 0
       THEN \* AutoScalingGroups[0] of an empty slice: index out of range
            /\ pc' = [pc EXCEPT ![g] = "panicked"]
            /\ UNCHANGED <<status, ret>>
       ELSE /\ status' = [status EXCEPT ![g].Replicas = Ptr(out[g].groups[1].instances)]
            /\ IF \/ spec[g].Replicas = Nil
                  \/ Deref(status'[g].Replicas) = Deref(spec[g].Replicas)
               THEN /\ ret' = [ret EXCEPT ![g] = NoError]
                    /\ pc' = [pc EXCEPT ![g] = "done"]
               ELSE /\ pc' = [pc EXCEPT ![g] = "updating"]
                    /\ UNCHANGED ret
    /\ UNCHANGED <<spec, out, cloud, calls, preStatus, fvars, lookup, cvars, evars>>

\* A variant that requests the observed count instead of Spec.Replicas.
UpdateAutoScalingGroupObserved(g) ==
    /\ pc[g] = "updating"
    /\ \A h \in DOMAIN pc : pc[h] # "panicked"
    /\ \E err \in UpdateAnswers(spec[g].ID) :
          /\ calls' = [calls EXCEPT ![g] =
                         Append(@, UpdateCall(spec[g].ID,
                                              Ptr(Deref(status[g].Replicas)), err))]
          /\ cloud' = IF err = NoError
                      THEN [cloud EXCEPT ![spec[g].ID].desired = Deref(status[g].Replicas)]
                      ELSE cloud
          /\ ret' = [ret EXCEPT ![g] = err]
    /\ pc' = [pc EXCEPT ![g] = "done"]
    /\ UNCHANGED <<spec, status, out, preStatus, fvars, lookup, cvars, evars>>

\* A variant that calls UpdateAutoScalingGroup again when the call failed.
UpdateAutoScalingGroupRetry(g) ==
    /\ pc[g] = "updating"
    /\ \A h \in DOMAIN pc : pc[h] # "panicked"
    /\ \E err \in UpdateAnswers(spec[g].ID) :
          /\ calls' = [calls EXCEPT ![g] =
                         Append(@, UpdateCall(spec[g].ID,
                                              Ptr(Deref(spec[g].Replicas)), err))]
          /\ cloud' = IF err = NoError
                      THEN [cloud EXCEPT ![spec[g].ID].desired = Deref(spec[g].Replicas)]
                      ELSE cloud
          /\ ret' = [ret EXCEPT ![g] = err]
          /\ pc' = [pc EXCEPT ![g] =
                      IF err # NoError /\ Len(calls[g]) < 2 THEN "updating" ELSE "done"]
    /\ UNCHANGED <<spec, status, out, preStatus, fvars, lookup, cvars, evars>>

\* A variant that writes the requested size to the status once the update
\* succeeded.
UpdateAutoScalingGroupWritesTarget(g) ==
    /\ pc[g] = "updating"
    /\ \A h \in DOMAIN pc : pc[h] # "panicked"
    /\ \E err \in UpdateAnswers(spec[g].ID) :
          /\ calls' = [calls EXCEPT ![g] =
                         Append(@, UpdateCall(spec[g].ID,
                                              Ptr(Deref(spec[g].Replicas)), err))]
          /\ cloud' = IF err = NoError
                      THEN [cloud EXCEPT ![spec[g].ID].desired = Deref(spec[g].Replicas)]
                      ELSE cloud
          /\ status' = IF err = NoError
                       THEN [status EXCEPT ![g].Replicas = spec[g].Replicas]
                       ELSE status
          /\ ret' = [ret EXCEPT ![g] = err]
    /\ pc' = [pc EXCEPT ![g] = "done"]
    /\ UNCHANGED <<spec, out, preStatus, fvars, lookup, cvars, evars>>

\* asg.Client.UpdateAutoScalingGroup is called and returns; Reconcile
\* returns the call's error.
UpdateAutoScalingGroup(g) ==
    /\ pc[g] = "updating"
    /\ \A h \in DOMAIN pc : pc[h] # "panicked"
    /\ \E err \in UpdateAnswers(spec[g].ID) :
          /\ calls' = [calls EXCEPT ![g] =
                         Append(@, UpdateCall(spec[g].ID,
                                              Ptr(Deref(spec[g].Replicas)), err))]
          /\ cloud' = IF err = NoError
                      THEN [cloud EXCEPT ![spec[g].ID].desired = Deref(spec[g].Replicas)]
                      ELSE cloud
          /\ ret' = [ret EXCEPT ![g] = err]
    /\ pc' = [pc EXCEPT ![g] = "done"]
    /\ UNCHANGED <<spec, status, out, preStatus, fvars, lookup, cvars, evars>>

\* The caller takes Reconcile's result; the call's locals are gone.
ReconcileReturn(g) ==
    /\ pc[g] = "done"
    /\ \A h \in DOMAIN pc : pc[h] # "panicked"
    /\ pc' = [pc EXCEPT ![g] = "idle"]
    /\ out' = [out EXCEPT ![g] = NoOutput]
    /\ ret' = [ret EXCEPT ![g] = NoError]
    /\ calls' = [calls EXCEPT ![g] = <<>>]
    /\ preStatus' = [preStatus EXCEPT ![g] = Nil]
    /\ UNCHANGED <<spec, status, cloud, fvars, lookup, cvars, evars>>

\* ------------------------------------------------------------ environment
\* The owner of the ScalableNodeGroup sets or clears Spec.Replicas between
\* two Reconcile calls.
SetReplicas(g) ==
    /\ pc[g] = "idle"
    /\ \E r \in {Nil} \cup {Ptr(n) : n \in Replicas} :
          /\ r # spec[g].Replicas
          /\ spec' = [spec EXCEPT ![g].Replicas = r]
    /\ UNCHANGED <<status, pc, out, ret, cloud, calls, preStatus, fvars, lookup, cvars, evars>>

\* AWS launches or terminates one instance of a group, towards the group's
\* desired capacity.
CloudScale(name) ==
    /\ cloud[name].exists
    /\ cloud[name].instances # cloud[name].desired
    /\ cloud' = [cloud EXCEPT ![name].instances =
                    IF @ < cloud[name].desired THEN @ + 1 ELSE @ - 1]
    /\ UNCHANGED <<spec, status, pc, out, ret, calls, preStatus, fvars, lookup, cvars, evars>>

\* The auto scaling group is deleted in AWS.
CloudDelete(name) ==
    /\ cloud[name].exists
    /\ cloud' = [cloud EXCEPT ![name] = Absent]
    /\ UNCHANGED <<spec, status, pc, out, ret, calls, preStatus, fvars, lookup, cvars, evars>>

\* ---------------------------------------------------------------- Factory
\* The regions the instance metadata server may report.
Regions == {"us-west-2", "eu-west-1"}

\* The values of options.ClientSet.
ClientSets == {"clientset-1", "clientset-2"}

\* The *v1alpha1.Provisioner pointers CapacityFor is called with.
Provisioners == {"provisioner-a", "provisioner-b"}

NoSession == [region |-> Nil, retryer |-> "", stsRegionalEndpoint |-> "", handlers |-> <<>>]

\* cache.New(defaultExpiration, cleanupInterval): a new, empty cache.
CacheNew(defaultExpiration, cleanupInterval) ==
    [type |-> "cache.Cache", defaultExpiration |-> defaultExpiration,
     cleanupInterval |-> cleanupInterval, items |-> {}]

\* ec2.New(sess), ssm.New(sess): a client holding a copy of the session's
\* configuration and handlers.
ClientNew(service, s) == [type |-> service, config |-> s]

\* NewSubnetProvider(ec2api): the provider and the cache it owns, the
\* cache at address cache.
NewSubnetProvider(ec2api, cache) ==
    [type |-> "SubnetProvider", ec2api |-> ec2api, cache |-> cache]

\* NewInstanceTypeProvider(ec2api): the provider and the cache it owns.
NewInstanceTypeProvider(ec2api, cache) ==
    [type |-> "InstanceTypeProvider", ec2api |-> ec2api, cache |-> cache]

\* session.Must(session.NewSession(request.WithRetryer(...))): the session
\* is created, with the region the environment configures (if any), or
\* NewSession fails and Must panics.
NewSession ==
    /\ fpc = "NewSession"
    /\ \/ /\ \E r \in {Nil} \cup {Ptr(x) : x \in Regions} :
                sess' = [region |-> r, retryer |-> "utils.Retryer",
                         stsRegionalEndpoint |-> "regional", handlers |-> <<>>]
          /\ fpc' = "withRegion"
       \/ /\ fpc' = "panicked"
          /\ UNCHANGED sess
    /\ UNCHANGED <<heap, factory, handles, netCalls, ngvars, lookup, cvars, evars>>

\* The answers of the instance metadata server to the region lookup.
NoLookup == [region |-> Nil, err |-> NoError]

RegionAnswers ==
    {[region |-> Ptr(r), err |-> NoError] : r \in Regions}
    \cup {[region |-> Nil, err |-> APIError("EC2MetadataRequestError")]}

\* log.PanicIfError(err, ...): panics when err is not nil.
PanicIfError(err) == err # NoError

\* A variant of withRegion that keeps going with the region the session
\* already has, or a default region, when the lookup failed.
withRegionDefault ==
    /\ fpc = "withRegion"
    /\ netCalls' = netCalls + 1
    /\ \E answer \in RegionAnswers :
          /\ lookup' = answer
          /\ sess' = [sess EXCEPT !.region =
                         IF answer.err = NoError THEN answer.region
                         ELSE IF @ # Nil THEN @ ELSE Ptr("us-west-2")]
          /\ fpc' = "withUserAgent"
    /\ UNCHANGED <<heap, factory, handles, ngvars, cvars, evars>>

\* withRegion(sess): the region is asked of the instance metadata server;
\* log.PanicIfError panics when the lookup failed, otherwise the region is
\* written to the session's configuration.
withRegion ==
    /\ fpc = "withRegion"
    /\ netCalls' = netCalls + 1
    /\ \E answer \in RegionAnswers :
          /\ lookup' = answer
          /\ IF PanicIfError(answer.err)
             THEN /\ fpc' = "panicked"
                  /\ UNCHANGED sess
             ELSE /\ sess' = [sess EXCEPT !.region = answer.region]
                  /\ fpc' = "withUserAgent"
    /\ UNCHANGED <<heap, factory, handles, ngvars, cvars, evars>>

\* withUserAgent(sess): a handler adding the user agent is pushed on the
\* session's build handlers.
withUserAgent ==
    /\ fpc = "withUserAgent"
    /\ sess' = [sess EXCEPT !.handlers = Append(@, "karpenter.sh-version")]
    /\ fpc' = "build"
    /\ UNCHANGED <<heap, factory, handles, netCalls, ngvars, lookup, cvars, evars>>

\* A variant of NewFactory that hands the LaunchTemplateProvider's cache to
\* the SecurityGroupProvider as well.
NewFactorySharedCache(clientSet) ==
    /\ fpc = "build"
    /\ LET base == Len(heap)
           ec2api == base + 1
           ltCache == base + 2
           sgCache == base + 3
           securityGroupProvider == base + 4
           ssm == base + 5
           launchTemplateProvider == base + 6
           nodeFactory == base + 7
           subnetCache == base + 8
           subnetProvider == base + 9
           instanceTypeCache == base + 10
           instanceTypeProvider == base + 11
           instanceProvider == base + 12
           f == base + 13
       IN /\ heap' = heap \o <<
                ClientNew("ec2.EC2", sess),
                CacheNew(CacheTTL, CacheCleanupInterval),
                CacheNew(CacheTTL, CacheCleanupInterval),
                [type |-> "SecurityGroupProvider", ec2api |-> ec2api, cache |-> ltCache],
                ClientNew("ssm.SSM", sess),
                [type |-> "LaunchTemplateProvider", ec2api |-> ec2api,
                 cache |-> ltCache, securityGroupProvider |-> securityGroupProvider,
                 ssm |-> ssm, clientSet |-> clientSet],
                [type |-> "NodeFactory", ec2api |-> ec2api],
                CacheNew(CacheTTL, CacheCleanupInterval),
                NewSubnetProvider(ec2api, subnetCache),
                CacheNew(CacheTTL, CacheCleanupInterval),
                NewInstanceTypeProvider(ec2api, instanceTypeCache),
                [type |-> "InstanceProvider", ec2api |-> ec2api],
                [type |-> "Factory", nodeFactory |-> nodeFactory,
                 launchTemplateProvider |-> launchTemplateProvider,
                 subnetProvider |-> subnetProvider,
                 instanceTypeProvider |-> instanceTypeProvider,
                 instanceProvider |-> instanceProvider] >>
          /\ factory' = f
    /\ fpc' = "ready"
    /\ UNCHANGED <<sess, handles, netCalls, ngvars, lookup, cvars, evars>>

\* The rest of NewFactory(options): the clients, the caches and the
\* providers are allocated, then the Factory that holds them.
NewFactory(clientSet) ==
    /\ fpc = "build"
    /\ LET base == Len(heap)
           ec2api == base + 1
           ltCache == base + 2
           sgCache == base + 3
           securityGroupProvider == base + 4
           ssm == base + 5
           launchTemplateProvider == base + 6
           nodeFactory == base + 7
           subnetCache == base + 8
           subnetProvider == base + 9
           instanceTypeCache == base + 10
           instanceTypeProvider == base + 11
           instanceProvider == base + 12
           f == base + 13
       IN /\ heap' = heap \o <<
                ClientNew("ec2.EC2", sess),
                CacheNew(CacheTTL, CacheCleanupInterval),
                CacheNew(CacheTTL, CacheCleanupInterval),
                [type |-> "SecurityGroupProvider", ec2api |-> ec2api, cache |-> sgCache],
                ClientNew("ssm.SSM", sess),
                [type |-> "LaunchTemplateProvider", ec2api |-> ec2api,
                 cache |-> ltCache, securityGroupProvider |-> securityGroupProvider,
                 ssm |-> ssm, clientSet |-> clientSet],
                [type |-> "NodeFactory", ec2api |-> ec2api],
                CacheNew(CacheTTL, CacheCleanupInterval),
                NewSubnetProvider(ec2api, subnetCache),
                CacheNew(CacheTTL, CacheCleanupInterval),
                NewInstanceTypeProvider(ec2api, instanceTypeCache),
                [type |-> "InstanceProvider", ec2api |-> ec2api],
                [type |-> "Factory", nodeFactory |-> nodeFactory,
                 launchTemplateProvider |-> launchTemplateProvider,
                 subnetProvider |-> subnetProvider,
                 instanceTypeProvider |-> instanceTypeProvider,
                 instanceProvider |-> instanceProvider] >>
          /\ factory' = f
    /\ fpc' = "ready"
    /\ UNCHANGED <<sess, handles, netCalls, ngvars, lookup, cvars, evars>>

\* A variant of CapacityFor that keeps one Capacity and rebinds it to the
\* provisioner of each call.
CapacityForMemoized(provisioner) ==
    /\ fpc = "ready"
    /\ Len(handles) < MaxHandles
    /\ IF handles = <<>>
       THEN /\ heap' = Append(heap,
                 [type |-> "Capacity", provisioner |-> provisioner,
                  nodeFactory |-> heap[factory].nodeFactory,
                  instanceProvider |-> heap[factory].instanceProvider,
                  launchTemplateProvider |-> heap[factory].launchTemplateProvider,
                  instanceTypeProvider |-> heap[factory].instanceTypeProvider,
                  subnetProvider |-> heap[factory].subnetProvider])
            /\ handles' = Append(handles,
                 [provisioner |-> provisioner, capacity |-> Len(heap) + 1])
       ELSE /\ heap' = [heap EXCEPT ![handles[1].capacity].provisioner = provisioner]
            /\ handles' = Append(handles,
                 [provisioner |-> provisioner, capacity |-> handles[1].capacity])
    /\ UNCHANGED <<fpc, sess, factory, netCalls, ngvars, lookup, cvars, evars>>

\* f.CapacityFor(provisioner): a new Capacity holding the provisioner and
\* the Factory's providers is allocated and returned.
CapacityFor(provisioner) ==
    /\ fpc = "ready"
    /\ Len(handles) < MaxHandles
    /\ heap' = Append(heap,
          [type |-> "Capacity", provisioner |-> provisioner,
           nodeFactory |-> heap[factory].nodeFactory,
           instanceProvider |-> heap[factory].instanceProvider,
           launchTemplateProvider |-> heap[factory].launchTemplateProvider,
           instanceTypeProvider |-> heap[factory].instanceTypeProvider,
           subnetProvider |-> heap[factory].subnetProvider])
    /\ handles' = Append(handles,
          [provisioner |-> provisioner, capacity |-> Len(heap) + 1])
    /\ UNCHANGED <<fpc, sess, factory, netCalls, ngvars, lookup, cvars, evars>>

\* ------------------------------------------------------------------ Cache
\* The keys and the values the providers cache, and the lifetimes they ask
\* for.
Keys == {"key"}

Values == {"v1", "v2"}

TTLs == {1, CacheTTL}

\* The caches of the LaunchTemplateProvider and of its SecurityGroupProvider.
UsedCaches ==
    IF factory = 0 THEN {}
    ELSE LET lt == heap[heap[factory].launchTemplateProvider]
         IN {lt.cache, heap[lt.securityGroupProvider].cache}

\* item.Expired() at time t.
Expired(item, t) == t > item.expiration

\* c.Set(k, v, ttl): the item of key k is replaced by v, expiring ttl from
\* now.
CacheSet(c, k, v, ttl) ==
    /\ got = <<>>
    /\ heap' = [heap EXCEPT ![c].items =
                   {i \in @ : i.key # k}
                   \cup {[key |-> k, value |-> v, expiration |-> now + ttl]}]
    /\ stored' = {e \in stored : ~(e.cache = c /\ e.key = k)}
                 \cup {[cache |-> c, key |-> k, value |-> v, expiration |-> now + ttl]}
    /\ UNCHANGED <<fpc, sess, factory, handles, netCalls, lookup, now, got, ngvars, evars>>

\* A variant of Get that leaves expiry to the sweep.
CacheGetUnchecked(c, k) ==
    /\ got = <<>>
    /\ got' = IF \E i \in heap[c].items : i.key = k
              THEN LET i == CHOOSE i \in heap[c].items : i.key = k
                   IN <<[cache |-> c, key |-> k, found |-> TRUE, value |-> i.value]>>
              ELSE <<[cache |-> c, key |-> k, found |-> FALSE, value |-> ""]>>
    /\ UNCHANGED <<fvars, lookup, now, stored, ngvars, evars>>

\* c.Get(k): the value of key k, found, when the cache holds an item of
\* that key that has not expired at the time of the call.
CacheGet(c, k) ==
    /\ got = <<>>
    /\ got' = IF \E i \in heap[c].items : i.key = k /\ ~Expired(i, now)
              THEN LET i == CHOOSE i \in heap[c].items : i.key = k
                   IN <<[cache |-> c, key |-> k, found |-> TRUE, value |-> i.value]>>
              ELSE <<[cache |-> c, key |-> k, found |-> FALSE, value |-> ""]>>
    /\ UNCHANGED <<fvars, lookup, now, stored, ngvars, evars>>

\* The caller of Get takes the result.
CacheGetReturn ==
    /\ got # <<>>
    /\ got' = <<>>
    /\ UNCHANGED <<fvars, lookup, now, stored, ngvars, evars>>

\* The periodic sweep of cache c, every cleanupInterval: the expired items
\* are deleted.
CacheSweep(c) ==
    /\ got = <<>>
    /\ now > 0
    /\ now % heap[c].cleanupInterval = 0
    /\ \E i \in heap[c].items : Expired(i, now)
    /\ heap' = [heap EXCEPT ![c].items = {i \in @ : ~Expired(i, now)}]
    /\ UNCHANGED <<fpc, sess, factory, handles, netCalls, lookup, cvars, ngvars, evars>>

\* A minute passes.
Tick ==
    /\ fpc = "ready"
    /\ got = <<>>
    /\ now < MaxTime
    /\ now' = now + 1
    /\ UNCHANGED <<fvars, lookup, stored, got, ngvars, evars>>

\* ------------------------------------------------------------ Environment
\* The options a test may pass to NewEnvironment: one registers a
\* controller with e.Manager, one adds to e.cleanup and releases it once
\* e.ctx is cancelled.
Options == {"register-controller", "add-cleanup"}

\* The sentinel error of wait.ExponentialBackoff.
ErrWaitTimeout == <<[text |-> "timed out waiting for the condition", arg |-> ""]>>

\* fmt.Errorf("starting environment, %w", err)
StartingEnvironmentError(err) ==
    <<[text |-> "starting environment", arg |-> ""]>> \o err

\* The events of a TLS dial of the webhook port.
DialEvents == {"dial ok", "dial failed", "close failed"}

\* What one dial and close may give: the dial succeeds only when the
\* manager's webhook server is listening.
DialOutcomes ==
    IF mgr = "serving" THEN DialEvents ELSE {"dial failed"}

\* Backoff.Step(): Steps is decremented and Duration multiplied by Factor;
\* a Duration beyond Cap is cut to Cap and ends the steps.
BackoffStep(b) ==
    LET next == (b.Duration * BackoffFactorNum) \div BackoffFactorDen
    IN IF BackoffCap > 0 /\ next > BackoffCap
       THEN [Duration |-> BackoffCap, Steps |-> 0]
       ELSE [Duration |-> next, Steps |-> b.Steps - 1]

\* e.Environment.Start(): the API server and etcd come up, or Start
\* returns the wrapped error.
StartEnvironment ==
    /\ epc = "Environment.Start"
    /\ \/ /\ elog' = Append(elog, "Environment.Start")
          /\ epc' = "NewManagerOrDie"
          /\ UNCHANGED eret
       \/ /\ elog' = Append(elog, "Environment.Start failed")
          /\ eret' = StartingEnvironmentError(APIError("envtest"))
          /\ epc' = "returned"
    /\ UNCHANGED <<options, spc, mgr, backoff, cancelled, cleanup, ngvars, fvars, lookup, cvars>>

\* e.Manager = controllers.NewManagerOrDie(...): the manager is created,
\* or the process ends.
NewManagerOrDie ==
    /\ epc = "NewManagerOrDie"
    /\ \/ /\ elog' = Append(elog, "NewManagerOrDie")
          /\ mgr' = "created"
          /\ epc' = "client.New"
       \/ /\ epc' = "died"
          /\ UNCHANGED <<elog, mgr>>
    /\ UNCHANGED <<options, eret, spc, backoff, cancelled, cleanup, ngvars, fvars, lookup, cvars>>

\* kubeClient, err := client.New(...): e.Client is set, or Start returns
\* the error.
NewClient ==
    /\ epc = "client.New"
    /\ \/ /\ elog' = Append(elog, "client.New")
          /\ epc' = "options"
          /\ UNCHANGED eret
       \/ /\ eret' = APIError("client.New")
          /\ epc' = "returned"
          /\ UNCHANGED elog
    /\ UNCHANGED <<options, spc, mgr, backoff, cancelled, cleanup, ngvars, fvars, lookup, cvars>>

\* The options applied so far, in the order they were applied.
Applied == SelectSeq(elog, LAMBDA ev : ev \in Options)

\* One turn of the loop over e.options: the next option is called.
ApplyOption ==
    /\ epc = "options"
    /\ Len(Applied) < Len(options)
    /\ LET option == options[Len(Applied) + 1]
       IN /\ elog' = Append(elog, option)
          /\ cleanup' = IF option = "add-cleanup" THEN cleanup + 1 ELSE cleanup
    /\ UNCHANGED <<options, epc, eret, spc, mgr, backoff, cancelled, ngvars, fvars, lookup, cvars>>

\* A variant that starts the manager while options are still to be applied.
GoManagerStartBeforeOptions ==
    /\ epc = "options"
    /\ elog' = Append(elog, "go Manager.Start")
    /\ mgr' = "launched"
    /\ backoff' = [Duration |-> BackoffDuration, Steps |-> BackoffSteps]
    /\ epc' = "probe"
    /\ UNCHANGED <<options, eret, spc, cancelled, cleanup, ngvars, fvars, lookup, cvars>>

\* go func() { e.Manager.Start(e.ctx) }(): the goroutine is launched once
\* the loop over the options has ended; Start goes on to
\* wait.ExponentialBackoff.
GoManagerStart ==
    /\ epc = "options"
    /\ Len(Applied) = Len(options)
    /\ elog' = Append(elog, "go Manager.Start")
    /\ mgr' = "launched"
    /\ backoff' = [Duration |-> BackoffDuration, Steps |-> BackoffSteps]
    /\ epc' = "probe"
    /\ UNCHANGED <<options, eret, spc, cancelled, cleanup, ngvars, fvars, lookup, cvars>>

\* The goroutine runs e.Manager.Start(e.ctx): the webhook server listens.
ManagerServe ==
    /\ mgr = "launched"
    /\ ~cancelled
    /\ epc # "died"
    /\ mgr' = "serving"
    /\ UNCHANGED <<options, epc, eret, spc, backoff, cancelled, cleanup, elog, ngvars, fvars, lookup, cvars>>

\* e.Manager.Start returns an error and the goroutine panics: the process
\* ends.
ManagerPanic ==
    /\ mgr \in {"launched", "serving"}
    /\ epc # "died"
    /\ mgr' = "panicked"
    /\ epc' = "died"
    /\ UNCHANGED <<options, eret, spc, backoff, cancelled, cleanup, elog, ngvars, fvars, lookup, cvars>>

\* e.Manager.Start returns nil once e.ctx is cancelled.
ManagerStopped ==
    /\ mgr \in {"launched", "serving"}
    /\ cancelled
    /\ epc # "died"
    /\ mgr' = "stopped"
    /\ UNCHANGED <<options, epc, eret, spc, backoff, cancelled, cleanup, elog, ngvars, fvars, lookup, cvars>>

\* A variant of the probe that returns the error of a failed dial.
ProbeAttemptPropagates ==
    /\ epc = "probe"
    /\ backoff.Steps > 0
    /\ \E outcome \in DialOutcomes :
          /\ elog' = Append(elog, outcome)
          /\ IF outcome = "dial ok"
             THEN /\ eret' = NoError
                  /\ epc' = "returned"
                  /\ UNCHANGED backoff
             ELSE /\ eret' = APIError(outcome)
                  /\ epc' = "returned"
                  /\ UNCHANGED backoff
    /\ UNCHANGED <<options, spc, mgr, cancelled, cleanup, ngvars, fvars, lookup, cvars>>

\* One turn of wait.ExponentialBackoff: the condition dials the webhook
\* port and closes the connection; (true, nil) ends the wait with nil,
\* (false, nil) goes on to the next step, and the wait ends with
\* ErrWaitTimeout when no step is left.
ProbeAttempt ==
    /\ epc = "probe"
    /\ backoff.Steps > 0
    /\ \E outcome \in DialOutcomes :
          /\ elog' = Append(elog, outcome)
          /\ IF outcome = "dial ok"
             THEN /\ eret' = NoError
                  /\ epc' = "returned"
                  /\ UNCHANGED backoff
             ELSE IF backoff.Steps = 1
             THEN /\ eret' = ErrWaitTimeout
                  /\ epc' = "returned"
                  /\ UNCHANGED backoff
             ELSE /\ backoff' = BackoffStep(backoff)
                  /\ IF backoff'.Steps > 0
                     THEN UNCHANGED <<epc, eret>>
                     ELSE /\ eret' = ErrWaitTimeout
                          /\ epc' = "returned"
    /\ UNCHANGED <<options, spc, mgr, cancelled, cleanup, ngvars, fvars, lookup, cvars>>

\* Environment.Stop is called after Start returned: e.stop() cancels e.ctx.
StopCancel ==
    /\ epc = "returned"
    /\ spc = "stop"
    /\ cancelled' = TRUE
    /\ elog' = Append(elog, "stop")
    /\ spc' = "cleanup.Wait"
    /\ UNCHANGED <<options, epc, eret, mgr, backoff, cleanup, ngvars, fvars, lookup, cvars>>

\* The goroutine of an "add-cleanup" option sees e.ctx cancelled and calls
\* e.cleanup.Done().
CleanupDone ==
    /\ cancelled
    /\ cleanup > 0
    /\ epc # "died"
    /\ cleanup' = cleanup - 1
    /\ UNCHANGED <<options, epc, eret, spc, mgr, backoff, cancelled, elog, ngvars, fvars, lookup, cvars>>

\* e.cleanup.Wait() returns: the counter is zero.
StopWait ==
    /\ spc = "cleanup.Wait"
    /\ epc # "died"
    /\ cleanup = 0
    /\ elog' = Append(elog, "cleanup.Wait")
    /\ spc' = "Environment.Stop"
    /\ UNCHANGED <<options, epc, eret, mgr, backoff, cancelled, cleanup, ngvars, fvars, lookup, cvars>>

\* return e.Environment.Stop()
StopEnvironment ==
    /\ spc = "Environment.Stop"
    /\ epc # "died"
    /\ elog' = Append(elog, "Environment.Stop")
    /\ spc' = "returned"
    /\ UNCHANGED <<options, epc, eret, mgr, backoff, cancelled, cleanup, ngvars, fvars, lookup, cvars>>

\* ------------------------------------------------------------------ Init
\* NewDefaultAutoScalingGroup(sng) for a node group whose status was never
\* written; AWS holds a group of that name in a steady state.
InitGroups(G) ==
    /\ spec \in [G -> [ID : G, Replicas : {Nil} \cup {Ptr(n) : n \in Replicas}]]
    /\ \A g \in G : spec[g].ID = g
    /\ status = [g \in G |-> [Replicas |-> Nil]]
    /\ pc = [g \in G |-> "idle"]
    /\ out = [g \in G |-> NoOutput]
    /\ ret = [g \in G |-> NoError]
    /\ calls = [g \in G |-> <<>>]
    /\ preStatus = [g \in G |-> Nil]
    /\ cloud \in [G -> [exists : {TRUE}, instances : Replicas, desired : Replicas]]
    /\ \A name \in G : cloud[name].instances = cloud[name].desired

InitNodeGroups == InitGroups(Managed)

\* The process before NewFactory is called.
InitFactory ==
    /\ fpc = "NewSession"
    /\ sess = NoSession
    /\ heap = <<>>
    /\ factory = 0
    /\ handles = <<>>
    /\ netCalls = 0
    /\ lookup = NoLookup

\* No cache exists yet.
InitCaches ==
    /\ now = 0
    /\ stored = {}
    /\ got = <<>>

\* The sequences of at most n options.
OptionLists(n) == UNION {[1..k -> Options] : k \in 0..n}

\* NewEnvironment(options...): nothing is started.
InitEnvironmentWith(opts) ==
    /\ options = opts
    /\ epc = "Environment.Start"
    /\ eret = NoError
    /\ spc = "stop"
    /\ mgr = "none"
    /\ backoff = [Duration |-> 0, Steps |-> 0]
    /\ cancelled = FALSE
    /\ cleanup = 0
    /\ elog = <<>>

\* A test environment with no option, not started.
InitEnvironment == InitEnvironmentWith(<<>>)

Init == InitNodeGroups /\ InitFactory /\ InitCaches /\ InitEnvironment

Next ==
    \/ \E g \in DOMAIN pc : DescribeAutoScalingGroups(g)
    \/ \E g \in DOMAIN pc : ReconcileCompare(g)
    \/ \E g \in DOMAIN pc : UpdateAutoScalingGroup(g)
    \/ \E g \in DOMAIN pc : ReconcileReturn(g)
    \/ \E g \in DOMAIN pc : SetReplicas(g)
    \/ \E name \in DOMAIN cloud : CloudScale(name)
    \/ \E name \in DOMAIN cloud : CloudDelete(name)

\* The node groups: Reconcile calls, their owner and AWS.
Spec == Init /\ [][Next]_vars

\* The factory, with no node group reconciled meanwhile.
InitIdleNodeGroups ==
    /\ InitNodeGroups
    /\ \A g \in Managed : spec[g].Replicas = Nil
    /\ \A name \in Managed : cloud[name].instances = 0

InitFactoryOnly ==
    /\ InitFactory
    /\ InitCaches
    /\ InitEnvironment
    /\ InitIdleNodeGroups

NextFactory ==
    \/ NewSession
    \/ withRegion
    \/ withUserAgent
    \/ \E clientSet \in ClientSets : NewFactory(clientSet)
    \/ \E provisioner \in Provisioners : CapacityFor(provisioner)

SpecFactory == InitFactoryOnly /\ [][NextFactory]_vars

\* The describe call of a Reconcile call is answered without an error.
DescribeSucceeds(g) == DescribeAutoScalingGroups(g) /\ out'[g].err = NoError

\* The update call of a Reconcile call is answered without an error.
UpdateSucceeds(g) == UpdateAutoScalingGroup(g) /\ ret'[g] = NoError

\* Spec.Replicas is set and stays as it is; the group is not deleted.
InitConverge == Init /\ \A g \in Managed : spec[g].Replicas # Nil

NextConverge ==
    \/ \E g \in DOMAIN pc : DescribeAutoScalingGroups(g)
    \/ \E g \in DOMAIN pc : ReconcileCompare(g)
    \/ \E g \in DOMAIN pc : UpdateAutoScalingGroup(g)
    \/ \E g \in DOMAIN pc : ReconcileReturn(g)
    \/ \E name \in DOMAIN cloud : CloudScale(name)

\* Reconcile is called again and again, one call after the other; a call
\* that is entered runs to its end; the describe and update calls succeed
\* again and again; AWS keeps scaling towards the desired capacity.
FairConverge ==
    \A g \in Managed :
        /\ WF_vars(DescribeAutoScalingGroups(g))
        /\ WF_vars(ReconcileCompare(g))
        /\ WF_vars(UpdateAutoScalingGroup(g))
        /\ WF_vars(ReconcileReturn(g))
        /\ SF_vars(DescribeSucceeds(g))
        /\ SF_vars(UpdateSucceeds(g))
        /\ WF_vars(CloudScale(g))

SpecConverge == InitConverge /\ [][NextConverge]_vars /\ FairConverge

\* Two node group objects, each with its own auto scaling group, whose
\* Reconcile calls run at the same time; the auto scaling groups start
\* with no instance.
Concurrent == {"asg-a", "asg-b"}

InitConcurrent ==
    /\ InitGroups(Concurrent)
    /\ \A name \in Concurrent : cloud[name].instances = 0
    /\ InitFactory
    /\ InitCaches
    /\ InitEnvironment

NextConcurrent ==
    \/ \E g \in DOMAIN pc : DescribeAutoScalingGroups(g)
    \/ \E g \in DOMAIN pc : ReconcileCompare(g)
    \/ \E g \in DOMAIN pc : UpdateAutoScalingGroup(g)
    \/ \E g \in DOMAIN pc : ReconcileReturn(g)
    \/ \E name \in DOMAIN cloud : CloudScale(name)
    \/ \E name \in DOMAIN cloud : CloudDelete(name)

SpecConcurrent == InitConcurrent /\ [][NextConcurrent]_vars

\* The test environment: Start, the manager's goroutine, Stop.
InitEnv ==
    /\ InitFactory
    /\ InitCaches
    /\ InitIdleNodeGroups
    /\ \E opts \in OptionLists(MaxOptions) : InitEnvironmentWith(opts)

NextEnv ==
    \/ StartEnvironment
    \/ NewManagerOrDie
    \/ NewClient
    \/ ApplyOption
    \/ GoManagerStart
    \/ ManagerServe
    \/ ManagerPanic
    \/ ManagerStopped
    \/ ProbeAttempt
    \/ StopCancel
    \/ CleanupDone
    \/ StopWait
    \/ StopEnvironment

SpecEnv == InitEnv /\ [][NextEnv]_vars

\* The factory and the use of its caches.
NextCache ==
    \/ NewSession
    \/ withRegion
    \/ withUserAgent
    \/ \E clientSet \in ClientSets : NewFactory(clientSet)
    \/ \E c \in UsedCaches, k \in Keys, v \in Values, ttl \in TTLs : CacheSet(c, k, v, ttl)
    \/ \E c \in UsedCaches, k \in Keys : CacheGet(c, k)
    \/ CacheGetReturn
    \/ \E c \in UsedCaches : CacheSweep(c)
    \/ Tick

SpecCache == InitFactoryOnly /\ [][NextCache]_vars

\* ------------------------------------------------------------ properties
\* The UpdateAutoScalingGroup calls the current Reconcile call issued.
Updates(g) == SelectSeq(calls[g], LAMBDA c : c.op = "UpdateAutoScalingGroup")

\* The DescribeAutoScalingGroups calls the current Reconcile call issued.
Describes(g) == SelectSeq(calls[g], LAMBDA c : c.op = "DescribeAutoScalingGroups")

\* The describe call of the current Reconcile call returned no error and a
\* group, whose member count is ObservedCount(g).
Observed(g) == out[g].err = NoError /\ Len(out[g].groups) = 1

ObservedCount(g) == out[g].groups[1].instances

\* The describe call returned no error and no group.
ObservedNothing(g) == out[g].err = NoError /\ Len(out[g].groups) = 0

\* C1: a Reconcile call whose describe succeeded with member count n, with
\* Spec.Replicas set to d # n, has issued exactly one UpdateAutoScalingGroup
\* call, for its own Spec.ID and with desired capacity d, and on return
\* Status.Replicas is n.
C1_ConvergenceTrigger ==
    \A g \in DOMAIN pc :
        ( /\ pc[g] = "done"
          /\ Observed(g)
          /\ spec[g].Replicas # Nil
          /\ Deref(spec[g].Replicas) # ObservedCount(g) )
        => /\ Len(Updates(g)) = 1
           /\ Updates(g)[1].name = spec[g].ID
           /\ Updates(g)[1].capacity = Ptr(Deref(spec[g].Replicas))
           /\ status[g].Replicas = Ptr(ObservedCount(g))
           /\ status[g].Replicas # spec[g].Replicas

C1_Witness ==
    \E g \in DOMAIN pc :
        /\ pc[g] = "done"
        /\ Observed(g)
        /\ spec[g].Replicas # Nil
        /\ Deref(spec[g].Replicas) # ObservedCount(g)
        /\ ret[g] = NoError
        /\ Len(Updates(g)) = 1

\* C2: a Reconcile call with Spec.Replicas unset whose describe succeeded
\* with member count n sets Status.Replicas to n, issues no update call and
\* returns nil.
C2_UnsetIsNoOp ==
    \A g \in DOMAIN pc :
        ( /\ pc[g] \in {"updating", "done"}
          /\ Observed(g)
          /\ spec[g].Replicas = Nil )
        => /\ pc[g] = "done"
           /\ status[g].Replicas = Ptr(ObservedCount(g))
           /\ Updates(g) = <<>>
           /\ ret[g] = NoError

C2_Witness ==
    \E g \in DOMAIN pc :
        /\ pc[g] = "done"
        /\ Observed(g)
        /\ spec[g].Replicas = Nil
        /\ preStatus[g] # Nil
        /\ preStatus[g] # Ptr(ObservedCount(g))
        /\ status[g].Replicas = Ptr(ObservedCount(g))

\* C3: a Reconcile call entered with Status.Replicas equal to Spec.Replicas,
\* whose describe does not report another member count (it reports that
\* count, or fails, or finds no group), issues no update call and leaves
\* the status as it was; this holds of every such call, however many follow
\* each other.
C3_Idempotence ==
    \A g \in DOMAIN pc :
        ( /\ pc[g] \in {"updating", "done", "panicked"}
          /\ spec[g].Replicas # Nil
          /\ preStatus[g] = spec[g].Replicas
          /\ Observed(g) => ObservedCount(g) = Deref(spec[g].Replicas) )
        => /\ pc[g] # "updating"
           /\ Updates(g) = <<>>
           /\ status[g].Replicas = preStatus[g]
           /\ Observed(g) => (pc[g] = "done" /\ ret[g] = NoError)

C3_Witness ==
    \E g \in DOMAIN pc :
        /\ pc[g] = "done"
        /\ Observed(g)
        /\ spec[g].Replicas = Ptr(ObservedCount(g))
        /\ preStatus[g] = spec[g].Replicas
        /\ calls[g] = <<DescribeCall(spec[g].ID, out[g])>>

\* C4: a Reconcile call whose describe call returned an error returns an
\* error, issues no update call and leaves Status.Replicas as it was when
\* the call was entered.
C4_DescribeFailure ==
    \A g \in DOMAIN pc :
        ( /\ pc[g] \in {"updating", "done", "panicked"}
          /\ out[g].err # NoError )
        => /\ pc[g] = "done"
           /\ ret[g] # NoError
           /\ Updates(g) = <<>>
           /\ status[g].Replicas = preStatus[g]

C4_Witness ==
    \E g \in DOMAIN pc :
        /\ pc[g] = "done"
        /\ out[g].err # NoError
        /\ preStatus[g] # Nil
        /\ status[g].Replicas = preStatus[g]
        /\ ret[g] # NoError

\* C5: a Reconcile call whose describe call returned no error and no group
\* returns an error to its caller: it issues no update call, does not take
\* the missing group for a group of zero instances, and does not end
\* abnormally.
C5_MissingGroupSurfaced ==
    \A g \in DOMAIN pc :
        ( /\ pc[g] \in {"updating", "done", "panicked"}
          /\ ObservedNothing(g) )
        => /\ pc[g] = "done"
           /\ ret[g] # NoError
           /\ Updates(g) = <<>>
           /\ status[g].Replicas = preStatus[g]

\* C6: when the update call failed, the error Reconcile returns is the
\* update call's error with a frame naming Spec.ID in front of it, and the
\* update was called once.
C6_UpdateErrorWrapped ==
    \A g \in DOMAIN pc :
        ( /\ pc[g] = "done"
          /\ Updates(g) # <<>>
          /\ Updates(g)[1].err # NoError )
        => /\ Len(Updates(g)) = 1
           /\ Len(ret[g]) = Len(Updates(g)[1].err) + 1
           /\ ret[g][1].arg = spec[g].ID
           /\ Tail(ret[g]) = Updates(g)[1].err

\* C7: no Reconcile call issues more than one update call, whatever the
\* calls answer and however far Spec.Replicas is from the member count.
C7_AtMostOneUpdate ==
    \A g \in DOMAIN pc : Len(Updates(g)) <= 1

C7_Witness ==
    \E g \in DOMAIN pc :
        /\ pc[g] = "done"
        /\ Observed(g)
        /\ spec[g].Replicas # Nil
        /\ \/ Deref(spec[g].Replicas) - ObservedCount(g) >= 2
           \/ ObservedCount(g) - Deref(spec[g].Replicas) >= 2
        /\ Len(Updates(g)) = 1
        /\ Updates(g)[1].capacity = spec[g].Replicas

\* C8: after a Reconcile call whose describe succeeded, Status.Replicas is
\* the member count that describe returned, whether no update was called,
\* the update succeeded or the update failed; the call describes once,
\* before anything else.
C8_StatusIsObservation ==
    \A g \in DOMAIN pc :
        ( /\ pc[g] \in {"updating", "done"}
          /\ Observed(g) )
        => /\ status[g].Replicas = Ptr(ObservedCount(g))
           /\ Len(Describes(g)) = 1
           /\ calls[g][1] = DescribeCall(spec[g].ID, out[g])

C8_Witness ==
    \E g \in DOMAIN pc :
        /\ pc[g] = "done"
        /\ Observed(g)
        /\ Len(Updates(g)) = 1
        /\ Updates(g)[1].err # NoError
        /\ preStatus[g] # Nil
        /\ preStatus[g] # Ptr(ObservedCount(g))
        /\ status[g].Replicas = Ptr(ObservedCount(g))

\* C9: the first call of a Reconcile call is the describe call; an update
\* call is issued (or about to be) only after the describe call of the same
\* Reconcile call returned no error and a group, and only if the member
\* count of that answer differs from Spec.Replicas.
C9_ReadBeforeWrite ==
    \A g \in DOMAIN pc :
        /\ \A i \in 1..Len(calls[g]) :
              (calls[g][i].op = "DescribeAutoScalingGroups") <=> (i = 1)
        /\ (pc[g] = "updating" \/ Updates(g) # <<>>)
           => /\ calls[g] # <<>>
              /\ calls[g][1].err = NoError
              /\ Len(calls[g][1].groups) = 1
              /\ calls[g][1].name = spec[g].ID
              /\ spec[g].Replicas # Nil
              /\ calls[g][1].groups[1].instances # Deref(spec[g].Replicas)

C9_Witness ==
    \E g \in DOMAIN pc :
        /\ pc[g] = "done"
        /\ Len(calls[g]) = 2
        /\ calls[g][2].op = "UpdateAutoScalingGroup"
        /\ preStatus[g] = spec[g].Replicas
        /\ calls[g][1].groups[1].instances # Deref(spec[g].Replicas)

\* Every Capacity returned so far is an object of its own, holds the
\* provisioner it was asked for and holds the providers of the Factory.
HandlesShareProviders ==
    \A i \in 1..Len(handles) :
        LET c == heap[handles[i].capacity]
            f == heap[factory]
        IN /\ c.type = "Capacity"
           /\ c.provisioner = handles[i].provisioner
           /\ c.nodeFactory = f.nodeFactory
           /\ c.instanceProvider = f.instanceProvider
           /\ c.launchTemplateProvider = f.launchTemplateProvider
           /\ c.instanceTypeProvider = f.instanceTypeProvider
           /\ c.subnetProvider = f.subnetProvider
           /\ \A j \in 1..Len(handles) :
                 j # i => handles[j].capacity # handles[i].capacity

\* A CapacityFor call allocates one object and changes nothing else: not
\* the Factory, not a provider, a cache or a client, not an earlier
\* Capacity, not the session; and it issues no network call.
CapacityForFrame ==
    (Len(handles') > Len(handles))
    => /\ factory' = factory
       /\ Len(heap') = Len(heap) + 1
       /\ handles'[Len(handles')].capacity = Len(heap')
       /\ \A a \in 1..Len(heap) : heap'[a] = heap[a]
       /\ sess' = sess
       /\ netCalls' = netCalls

\* C10: CapacityFor may be called again and again: each call returns a new
\* Capacity bound to the provisioner given, every Capacity holds the same
\* provider objects as the Factory, and the call leaves the Factory and
\* everything it holds unchanged and issues no network call.
C10_CapacityFor == []HandlesShareProviders /\ [][CapacityForFrame]_vars

C10_Witness ==
    /\ Len(handles) >= 3
    /\ handles[1].provisioner # handles[2].provisioner
    /\ handles[1].provisioner = handles[3].provisioner
    /\ heap[handles[1].capacity].launchTemplateProvider
         = heap[handles[3].capacity].launchTemplateProvider

\* The clients built from the session, by address.
Clients == {a \in 1..Len(heap) : heap[a].type \in {"ec2.EC2", "ssm.SSM"}}

\* C11: when the region lookup of NewFactory failed, NewFactory has
\* panicked: no Factory is returned, no client, provider or cache is
\* allocated, and the session keeps the region it had, no other region is
\* written to it; when the lookup succeeded, every client built from the
\* session carries the region looked up.
C11_RegionLookup ==
    /\ lookup.err # NoError
       => /\ fpc = "panicked"
          /\ factory = 0
          /\ heap = <<>>
          /\ handles = <<>>
          /\ sess.handlers = <<>>
    /\ fpc = "panicked" => (factory = 0 /\ heap = <<>>)
    /\ \A a \in Clients :
          /\ lookup.err = NoError
          /\ lookup.region # Nil
          /\ heap[a].config.region = lookup.region
    /\ factory # 0 => (lookup.err = NoError /\ sess.region = lookup.region)

C11_Witness ==
    /\ lookup.err # NoError
    /\ fpc = "panicked"
    /\ netCalls = 1
    /\ sess.region # Nil

\* C12: a Get of a key at a time after the expiry time of the latest Set of
\* that key in that cache returns found = FALSE, whether or not the sweep
\* has run since; a Get before that expiry time returns found = TRUE and the
\* value of that Set.
C12_ReadTimeExpiry ==
    \A i \in 1..Len(got) :
        \A e \in stored :
            (e.cache = got[i].cache /\ e.key = got[i].key)
            => /\ now > e.expiration => ~got[i].found
               /\ now < e.expiration => (got[i].found /\ got[i].value = e.value)

C12_Witness ==
    /\ got # <<>>
    /\ ~got[1].found
    /\ \E i \in heap[got[1].cache].items :
          /\ i.key = got[1].key
          /\ now > i.expiration
          /\ now < heap[got[1].cache].cleanupInterval

\* Node group g has converged: its status and AWS both hold Spec.Replicas
\* members, and no update call is issued or about to be.
Converged(g) ==
    /\ status[g].Replicas = spec[g].Replicas
    /\ cloud[spec[g].ID].instances = Deref(spec[g].Replicas)
    /\ pc[g] # "updating"
    /\ Updates(g) = <<>>

\* A Reconcile call has returned nil after observing Spec.Replicas members
\* and issuing no update call.
NoOpPass(g) ==
    /\ pc[g] = "done"
    /\ Observed(g)
    /\ Ptr(ObservedCount(g)) = spec[g].Replicas
    /\ status[g].Replicas = spec[g].Replicas
    /\ Updates(g) = <<>>
    /\ ret[g] = NoError

\* C13: with Spec.Replicas fixed at d, Reconcile called again and again,
\* describe and update calls that succeed again and again and AWS scaling
\* to the size last requested, a Reconcile call eventually observes d
\* members, and from some point on the status stays d and no Reconcile call
\* issues an update call: every later call that describes is a no-op.
C13_Convergence ==
    \A g \in Managed :
        /\ <>[]Converged(g)
        /\ []<>NoOpPass(g)

C13_Witness ==
    \E g \in Managed :
        /\ NoOpPass(g)
        /\ preStatus[g] # Nil
        /\ preStatus[g] # spec[g].Replicas
        /\ cloud[spec[g].ID].desired = Deref(spec[g].Replicas)

\* What the Reconcile call on node group g has called and written is what
\* it calls and writes when it runs alone: every call names its own
\* Spec.ID, the status is the member count of its own describe answer, and
\* the update requests its own Spec.Replicas, once.
PassAsAlone(g) ==
    /\ \A i \in 1..Len(calls[g]) : calls[g][i].name = spec[g].ID
    /\ calls[g] # <<>> =>
          /\ calls[g][1] = DescribeCall(spec[g].ID, out[g])
          /\ out[g] \in {[err |-> APIError(c), groups |-> <<>>] : c \in APIErrorCodes}
                        \cup {[err |-> NoError, groups |-> <<>>]}
                        \cup {[err |-> NoError, groups |-> <<[instances |-> n]>>] :
                                 n \in Replicas}
    /\ (pc[g] \in {"updating", "done"} /\ Observed(g))
          => status[g].Replicas = Ptr(ObservedCount(g))
    /\ (pc[g] \in {"described", "done", "panicked"} /\ ~Observed(g))
          => status[g].Replicas = preStatus[g]
    /\ pc[g] = "done" =>
          Updates(g) =
             IF Observed(g) /\ spec[g].Replicas # Nil
                            /\ spec[g].Replicas # Ptr(ObservedCount(g))
             THEN <<UpdateCall(spec[g].ID, spec[g].Replicas, ret[g])>>
             ELSE <<>>

\* A step of the Reconcile call on one node group leaves the other node
\* group's object, its call's locals and calls, and its auto scaling group
\* as they are.
NonInterference ==
    \A g \in Concurrent, h \in Concurrent :
        (g # h /\ pc'[h] # pc[h])
        => /\ spec'[g] = spec[g]
           /\ status'[g] = status[g]
           /\ pc'[g] = pc[g]
           /\ out'[g] = out[g]
           /\ ret'[g] = ret[g]
           /\ calls'[g] = calls[g]
           /\ preStatus'[g] = preStatus[g]
           /\ cloud'[spec[g].ID] = cloud[spec[g].ID]

\* C14: however the Reconcile calls of two node groups interleave, each
\* describes and updates only its own Spec.ID and writes only its own
\* status, so that its status and its update call are those of a call
\* running alone.
C14_NonInterference ==
    /\ [](\A g \in Concurrent : PassAsAlone(g))
    /\ [][NonInterference]_vars

C14_Witness ==
    /\ \A g \in Concurrent :
          /\ pc[g] = "done"
          /\ Len(Updates(g)) = 1
          /\ ret[g] = NoError
    /\ status["asg-a"] # status["asg-b"]
    /\ spec["asg-a"].Replicas # spec["asg-b"].Replicas
    /\ calls["asg-a"][1].groups # calls["asg-b"][1].groups

\* A step of the Reconcile call on node group g leaves Spec.ID and
\* Spec.Replicas as they are; of the object it writes Status.Replicas only.
ReconcileKeepsSpec ==
    \A g \in DOMAIN pc :
        pc'[g] # pc[g]
        => /\ spec'[g].ID = spec[g].ID
           /\ spec'[g].Replicas = spec[g].Replicas
           /\ DOMAIN spec'[g] = DOMAIN spec[g]
           /\ DOMAIN status'[g] = {"Replicas"}

\* C15: on every path of Reconcile (describe failure, no-op, update
\* succeeded, update failed) Spec.ID and Spec.Replicas are after the call
\* what they were before it; the call writes Status.Replicas only.
C15_SpecReadOnly == [][ReconcileKeepsSpec]_vars

C15_Witness ==
    \E g \in DOMAIN pc :
        /\ pc[g] = "done"
        /\ spec[g].Replicas # Nil
        /\ Len(Updates(g)) = 1
        /\ status[g].Replicas # preStatus[g]
        /\ status[g].Replicas # spec[g].Replicas
        /\ spec[g].ID = g

\* The addresses of the objects that hold cache c in their cache field.
OwnersOf(c) ==
    {a \in 1..Len(heap) : "cache" \in DOMAIN heap[a] /\ heap[a].cache = c}

\* The addresses of the objects of a type.
ObjectsOf(type) == {a \in 1..Len(heap) : heap[a].type = type}

\* C16: in the Factory NewFactory returns, the providers that have a cache
\* each have a cache of their own (the LaunchTemplateProvider's and the
\* SecurityGroupProvider's are two caches: what is Set in one is not what a
\* Get of the other returns), the LaunchTemplateProvider holds the one
\* SecurityGroupProvider by its address, and every provider holds the one
\* EC2 client.
C16_OwnCaches ==
    factory # 0 =>
        LET f == heap[factory]
            lt == heap[f.launchTemplateProvider]
            sg == heap[lt.securityGroupProvider]
            sn == heap[f.subnetProvider]
            it == heap[f.instanceTypeProvider]
        IN /\ Cardinality({lt.cache, sg.cache, sn.cache, it.cache}) = 4
           /\ ObjectsOf("cache.Cache") = {lt.cache, sg.cache, sn.cache, it.cache}
           /\ \A c \in ObjectsOf("cache.Cache") : Cardinality(OwnersOf(c)) = 1
           /\ ObjectsOf("SecurityGroupProvider") = {lt.securityGroupProvider}
           /\ Cardinality(ObjectsOf("ec2.EC2")) = 1
           /\ \A a \in 1..Len(heap) :
                 "ec2api" \in DOMAIN heap[a] => heap[a].ec2api \in ObjectsOf("ec2.EC2")
           /\ {a \in 1..Len(heap) : "ec2api" \in DOMAIN heap[a]}
                = { f.nodeFactory, f.launchTemplateProvider, lt.securityGroupProvider,
                    f.subnetProvider, f.instanceTypeProvider, f.instanceProvider }
           /\ \A c \in ObjectsOf("cache.Cache") :
                 \A i \in heap[c].items :
                    [cache |-> c, key |-> i.key, value |-> i.value,
                     expiration |-> i.expiration] \in stored
           /\ \A n \in 1..Len(got) :
                 got[n].found =>
                    \E e \in stored : /\ e.cache = got[n].cache
                                      /\ e.key = got[n].key
                                      /\ e.value = got[n].value

C16_Witness ==
    /\ factory # 0
    /\ got # <<>>
    /\ got[1].found
    /\ got[1].cache = heap[heap[factory].launchTemplateProvider].cache
    /\ \E i \in heap[heap[heap[heap[factory].launchTemplateProvider].securityGroupProvider].cache].items :
          /\ i.key = got[1].key
          /\ i.value # got[1].value
          /\ now <= i.expiration


\* The dials of the readiness probe so far, in order.
Dials == SelectSeq(elog, LAMBDA ev : ev \in DialEvents)

\* C17: the readiness probe of Environment.Start dials the webhook port at
\* most BackoffSteps times; the first attempt that dials and closes ends
\* the wait and Start returns nil; an attempt that fails never ends the
\* wait before the last step; when every attempt failed Start returns the
\* timeout error.
C17_BoundedProbe ==
    LET n == Len(Dials)
    IN /\ n <= BackoffSteps
       /\ \A i \in 1..(n - 1) : Dials[i] # "dial ok"
       /\ epc = "probe" =>
             /\ n < BackoffSteps
             /\ backoff.Steps = BackoffSteps - n
             /\ \A i \in 1..n : Dials[i] # "dial ok"
       /\ (epc = "returned" /\ n > 0) =>
             IF Dials[n] = "dial ok"
             THEN eret = NoError
             ELSE n = BackoffSteps /\ eret = ErrWaitTimeout

\* Every attempt of the probe failed and Start returned the timeout error.
C17_Witness ==
    /\ epc = "returned"
    /\ Len(Dials) = BackoffSteps
    /\ Dials[BackoffSteps] # "dial ok"
    /\ eret = ErrWaitTimeout

\* The event has happened.
Happened(ev) == \E i \in 1..Len(elog) : elog[i] = ev

\* The events of Environment.Stop.
StopEvents == {"stop", "cleanup.Wait", "Environment.Stop"}

\* C18: Start starts the control-plane environment first and, when that
\* fails, returns the wrapped error with no manager created, no option
\* applied and no manager started; the client is created and every option
\* applied in registration order before the manager is started; the probe
\* dials only after the manager's start was launched; Stop cancels the
\* context before it waits for cleanup and stops the control-plane
\* environment last.
C18_LifecycleOrder ==
    /\ Happened("Environment.Start failed") =>
          /\ elog[1] = "Environment.Start failed"
          /\ \A i \in 2..Len(elog) : elog[i] \in StopEvents
          /\ mgr = "none"
          /\ Len(eret) > 1
          /\ Head(eret).text = "starting environment"
    /\ mgr # "none" => Happened("NewManagerOrDie")
    /\ mgr \notin {"none", "created"} <=> Happened("go Manager.Start")
    /\ \A i \in 1..Len(elog) :
          /\ elog[1] \in {"Environment.Start", "Environment.Start failed"}
          /\ elog[i] = "go Manager.Start" =>
                SubSeq(elog, 1, i - 1) =
                    <<"Environment.Start", "NewManagerOrDie", "client.New">> \o options
          /\ elog[i] \in DialEvents =>
                \E j \in 1..(i - 1) : elog[j] = "go Manager.Start"
          /\ elog[i] = "cleanup.Wait" =>
                /\ cancelled
                /\ \E j \in 1..(i - 1) : elog[j] = "stop"
          /\ elog[i] = "Environment.Stop" =>
                /\ i = Len(elog)
                /\ \E j \in 1..(i - 1) : elog[j] = "cleanup.Wait"

\* A started environment with two different options was stopped.
C18_Witness ==
    /\ Len(options) = 2
    /\ options[1] # options[2]
    /\ Happened("go Manager.Start")
    /\ eret = NoError
    /\ spc = "returned"
    /\ Happened("Environment.Stop")

====
